---- MODULE Spec2Model ----
(***************************************************************************)
(* Trip construction and fleet scheduling of the ready-mix dispatch        *)
(* engine (src/create_route.py, and its variant src/test.py).              *)
(*                                                                         *)
(* Units.  The source computes in binary floating point (doubles); the     *)
(* model computes in integers at a fixed scale:                            *)
(*   volumes    tenths of a cubic metre     (12.0 m3  -> 120)              *)
(*   times      1/600 of an hour (6 s)      (0.25 h   -> 150)              *)
(*   distances  whole kilometres                                           *)
(*   scores     tenths of a score point     (d2 + 5.0*waste -> 10*d2+5*w)  *)
(* With distances in whole km, get_travel_time (km/60*1.1 h) is 11 time    *)
(* units per km.                                                           *)
(*                                                                         *)
(* Rounding.  A double is not the decimal number it stands for, and where  *)
(* two numbers are equal at the model's scale the source compares their    *)
(* doubles.                                                                *)
(*   Volumes: an order volume is the double nearest to its tenths; the     *)
(*   Direct stage subtracts full loads without rounding, so a volume is    *)
(*   a record [tenths, noise] that stands for the real number              *)
(*   tenths/10 + noise * 2^-56/10, and comparisons are those of the        *)
(*   doubles, bit for bit.                                                 *)
(*   Distances and times: the rounding of the haversine formula and of     *)
(*   the sums of travel times is not computed.  Two such numbers that are  *)
(*   equal at the model's scale compare as equal when they are the same    *)
(*   double by construction, and either way otherwise: an operator that    *)
(*   depends on such a comparison yields the set of its possible results.  *)
(*                                                                         *)
(* Coordinates.  Customers lie on the plant's meridian: a coordinate is    *)
(* the signed arc length (km) north of the plant, for which the haversine  *)
(* formula of calculate_distance gives |km1 - km2| up to rounding; or it   *)
(* is NaN.                                                                 *)
(***************************************************************************)
EXTENDS Integers, Sequences, FiniteSets, TLC

VARIABLES
    site,               \* which module runs: "create_route" or "test"
    orders,             \* the argument of create_route / create_pools
    pc,                 \* position in create_route
    pools,              \* dict built by create_pools, in insertion order
    next_pool,          \* index of the pool the loop of create_route is at
    sorted_pools,       \* per processed pool: what prioritize_pool_orders returned
    priority_modes,     \* per processed pool: is_priority_mode
    trips,              \* all_trips / the argument of schedule_fleet (its dicts
                        \* get their 'schedule' key as the loop passes them)
    fleet,              \* schedule_fleet: list of trucks
    plant_ready_time,   \* schedule_fleet: plant clock
    truck_id_counter,   \* schedule_fleet: next truck id
    schedule,           \* schedule_fleet: trips with their 'schedule' record
    timeline            \* schedule_fleet: start_time and end_time of each iteration,
                        \* and whether the reuse loop found the truck back late

vars == <<site, orders, pc, pools, next_pool, sorted_pools, priority_modes, trips,
          fleet, plant_ready_time, truck_id_counter, schedule, timeline>>

---------------------------------------------------------------------------
(* Bounds of the model *)

MaxOrders == 3
MaxPoolOrders == 3
MaxTrips == 5
MaxLongTrips == 9

---------------------------------------------------------------------------
(* Program constants *)

BIG_TRUCK == 120
MEDIUM_TRUCK == 70
SMALL_TRUCK == 30
TIME_LOADING == 150
TIME_SERVICE == 450
SPEED_KMH == 60
START_HOUR == 4800
MAX_CONCRETE_LIFESPAN == 3600
AVOID_SMALL_TRUCKS == TRUE
PLANT_COORDS == [nan |-> FALSE, km |-> 0]

Sites == {"create_route", "test"}

---------------------------------------------------------------------------
(* Generic helpers *)

Abs(x) == IF x < 0 THEN -x ELSE x

Range(s) == {s[i] : i \in 1..Len(s)}

RECURSIVE SumSeq(_)
SumSeq(s) == IF s = <<>> THEN 0 ELSE Head(s) + SumSeq(Tail(s))

SeqsUpTo(S, n) == UNION {[1..k -> S] : k \in 0..n}

Perms(n) == {p \in [1..n -> 1..n] : \A i, j \in 1..n : p[i] = p[j] => i = j}

---------------------------------------------------------------------------
(* Volumes as doubles *)

\* The binade of t tenths, counted from 2^-4: 2^(k-4) <= t/10 < 2^(k-3).
Shift(t) == CHOOSE k \in 0..12 : 10 * 2^k <= 16 * t /\ 16 * t < 20 * 2^k

\* 2^m mod 5
Pow2Mod5(m) == <<1, 2, 4, 3>>[(m % 4) + 1]

\* What the double nearest to t tenths differs from t/10 by, in units of
\* 2^-56/10: the 53-bit significand of t/10 rounded to nearest.
Noise(t) ==
    LET k == Shift(t)
        y == (t * Pow2Mod5(56 - k)) % 5
        x == IF y % 2 = 0 THEN y ELSE y + 5
    IN  IF x < 5 THEN 0 - x * 2^k ELSE (10 - x) * 2^k

\* float(order_volume): the double of a volume given in tenths.
FloatOf(t) == [tenths |-> t, noise |-> IF t = 0 THEN 0 ELSE Noise(t)]

\* vol -= current_truck_cap, with vol >= current_truck_cap: no rounding.
FloatSub(x, cap) == [tenths |-> x.tenths - cap, noise |-> x.noise]

\* x + y as a real number; the double is the nearest one, which the
\* comparisons below account for.
FloatAdd(x, y) == [tenths |-> x.tenths + y.tenths, noise |-> x.noise + y.noise]

\* Half the spacing of the doubles around the capacity T (3.0, 7.0 or 12.0),
\* in units of 2^-56/10.
HalfUlp(T) == 10 * 2^(Shift(T) - 1)

\* double(x) <= T: x lies no further above T than the halfway point to the
\* next double (which rounds to T, whose significand is even).
FloatLe(x, T) == x.tenths < T \/ (x.tenths = T /\ x.noise <= HalfUlp(T))

\* double(x) >= T
FloatGe(x, T) == x.tenths > T \/ (x.tenths = T /\ x.noise >= 0 - HalfUlp(T))

\* double(x) > T
FloatGt(x, T) == ~FloatLe(x, T)

\* double(x) < T
FloatLt(x, T) == ~FloatGe(x, T)

\* An integer that orders the volumes the Direct stage leaves (doubles that
\* no sum has rounded) as the doubles are ordered.
FloatKey(x) == x.tenths * 2^17 + x.noise

---------------------------------------------------------------------------
(* Distance and time *)

calculate_distance(coord1, coord2) ==
    IF coord1.nan \/ coord2.nan THEN 50 ELSE Abs(coord1.km - coord2.km)

\* calculate_distance(c1, c2) and calculate_distance(c3, c4) are the same
\* double: both are the 50.0 of a NaN coordinate, or both are the haversine
\* formula on the same two places (it is symmetric).
same_distance(c1, c2, c3, c4) ==
    IF c1.nan \/ c2.nan THEN c3.nan \/ c4.nan
    ELSE /\ ~(c3.nan \/ c4.nan)
         /\ {c1, c2} = {c3, c4}

\* The results x < y can have on two computed numbers whose values at the
\* model's scale are x and y; same says they are one double by construction.
float_less(x, y, same) ==
    IF x < y THEN {TRUE}
    ELSE IF x > y \/ same THEN {FALSE}
    ELSE BOOLEAN

\* The results x <= y can have.
float_leq(x, y, same) ==
    IF x < y THEN {TRUE}
    ELSE IF x > y THEN {FALSE}
    ELSE IF same THEN {TRUE}
    ELSE BOOLEAN

\* A negative argument stands for NaN; calculate_distance never returns it.
get_travel_time(dist_km) ==
    IF dist_km < 0 THEN 600 ELSE (dist_km * 660) \div SPEED_KMH

\* "HH:MM (+Nd)" as the three numbers it prints; days = 0 prints no suffix.
\* Exact on a time that is a multiple of a quarter of an hour (a start time).
format_time(hours_float) ==
    LET hours == hours_float \div 600
        minutes == ((hours_float - hours * 600) * 60) \div 600
    IN  IF hours >= 24
        THEN [hh |-> hours % 24, mm |-> minutes, days |-> hours \div 24]
        ELSE [hh |-> hours, mm |-> minutes, days |-> 0]

\* format_time of a time the source has computed with rounding (an end time:
\* start + duration, the duration holding km/60*1.1): the float may lie just
\* below the exact value, and int() then truncates to the minute before when
\* the exact value is on a full minute.  The set of what can be printed.
format_time_of_float(hours_float) ==
    {format_time(hours_float), format_time(hours_float - 1)}

\* round(x, 2) on a duration: the hundredths of an hour it can give.  Python
\* rounds the double: half to even when the double is the halfway point
\* itself, else to the side the double lies on.
round2(duration) ==
    LET q == duration.units \div 6
        r == duration.units % 6
    IN  IF r < 3 THEN {q}
        ELSE IF r > 3 THEN {q + 1}
        ELSE IF duration.exact THEN {IF q % 2 = 0 THEN q ELSE q + 1}
        ELSE {q, q + 1}

\* A duration: its value at the model's scale, and whether the double is
\* known to be that value exactly (a sum of terms without rounding).
Duration(units, exact) == [units |-> units, exact |-> exact]

\* start_time + duration, start_time a tick of the plant clock (an exact
\* double): the end time at the model's scale, and whether the double is
\* known to be that value exactly.
end_time_of(start_time, duration) ==
    [t |-> start_time + duration.units, exact |-> duration.exact]

\* The results available_at <= start_time can have.
time_leq(available_at, start_time) ==
    float_leq(available_at.t, start_time, available_at.exact)

---------------------------------------------------------------------------
(* create_pools *)

pool_key(order) == <<order.strength, order.Dmax, order.consistency, order.exposure>>

pool_key_test(order) == <<order.strength, order.Dmax, order.consistency>>

PoolKey(s, order) == IF s = "test" THEN pool_key_test(order) ELSE pool_key(order)

PoolIndex(ps, key) ==
    IF \E i \in 1..Len(ps) : ps[i].key = key
    THEN CHOOSE i \in 1..Len(ps) : ps[i].key = key
    ELSE 0

\* Variant: pools[key] = [order] on every order.
pools_add_overwrite(s, ps, order) ==
    LET key == PoolKey(s, order)
        i == PoolIndex(ps, key)
    IN  IF i = 0
        THEN Append(ps, [key |-> key, orders |-> <<order>>])
        ELSE [ps EXCEPT ![i].orders = <<order>>]

\* One iteration of the loop of create_pools.
pools_add(s, ps, order) ==
    LET key == PoolKey(s, order)
        i == PoolIndex(ps, key)
    IN  IF i = 0
        THEN Append(ps, [key |-> key, orders |-> <<order>>])
        ELSE [ps EXCEPT ![i].orders = Append(@, order)]

RECURSIVE create_pools_from(_, _, _)
create_pools_from(s, ps, os) ==
    IF os = <<>> THEN ps
    ELSE create_pools_from(s, pools_add(s, ps, Head(os)), Tail(os))

create_pools(s, os) == create_pools_from(s, <<>>, os)

---------------------------------------------------------------------------
(* get_best_truck *)

\* Variant: the Small and Medium thresholds confused.
get_best_truck_low_tier(volume) ==
    IF FloatLe(volume, MEDIUM_TRUCK) THEN <<"Small_Truck", SMALL_TRUCK>>
    ELSE <<"Big_Truck", BIG_TRUCK>>

\* volume is a double: the sum of two remainders, or one remainder.
get_best_truck(volume) ==
    IF FloatLe(volume, SMALL_TRUCK) THEN <<"Small_Truck", SMALL_TRUCK>>
    ELSE IF FloatLe(volume, MEDIUM_TRUCK) THEN <<"Medium_Truck", MEDIUM_TRUCK>>
    ELSE <<"Big_Truck", BIG_TRUCK>>

\* Variant: the flag is not consulted.
get_best_truck_test_flag_ignored(volume) ==
    IF FloatLe(volume, SMALL_TRUCK) THEN <<"Small_Truck", SMALL_TRUCK>>
    ELSE IF FloatLe(volume, MEDIUM_TRUCK) THEN <<"Medium_Truck", MEDIUM_TRUCK>>
    ELSE <<"Big_Truck", BIG_TRUCK>>

get_best_truck_test(volume) ==
    IF FloatLe(volume, SMALL_TRUCK)
    THEN IF AVOID_SMALL_TRUCKS
         THEN <<"Medium_Truck", MEDIUM_TRUCK>>
         ELSE <<"Small_Truck", SMALL_TRUCK>>
    ELSE IF FloatLe(volume, MEDIUM_TRUCK) THEN <<"Medium_Truck", MEDIUM_TRUCK>>
    ELSE <<"Big_Truck", BIG_TRUCK>>

BestTruck(s, volume) ==
    IF s = "test" THEN get_best_truck_test(volume) ELSE get_best_truck(volume)

\* Whether the module of site s avoids small trucks: test.py defines the flag,
\* create_route.py has none and its get_best_truck never upgrades.
avoid_small_trucks(s) == s = "test" /\ AVOID_SMALL_TRUCKS

Capacity(truck_type) ==
    CASE truck_type = "Big_Truck" -> BIG_TRUCK
      [] truck_type = "Medium_Truck" -> MEDIUM_TRUCK
      [] truck_type = "Small_Truck" -> SMALL_TRUCK

---------------------------------------------------------------------------
(* prioritize_pool_orders *)

\* list.sort(key=..., reverse=True) is stable: position of element i in the
\* result, given the keys of the list.
RankDesc(keys, i) ==
    Cardinality({j \in 1..Len(keys) :
                    keys[j] > keys[i] \/ (keys[j] = keys[i] /\ j < i)}) + 1

SortDescByKeys(s, keys) ==
    [r \in 1..Len(s) |-> s[CHOOSE i \in 1..Len(s) : RankDesc(keys, i) = r]]

\* Variant: reverse=True left out.
sort_orders_asc(os) ==
    SortDescByKeys(os, [i \in 1..Len(os) |-> 0 - os[i].order_volume])

\* large_orders.sort(key=lambda x: x.order_volume, reverse=True)
sort_orders_desc(os) ==
    SortDescByKeys(os, [i \in 1..Len(os) |-> os[i].order_volume])

is_large(o) == o.order_volume >= MEDIUM_TRUCK

is_small(o) == o.order_volume < MEDIUM_TRUCK

\* random.shuffle(combined): shuffled[i] = combined[perm[i]] for a permutation.
shuffle(combined, perm) == [i \in 1..Len(combined) |-> combined[perm[i]]]

\* is_priority_mode is the outcome of random.random() < 0.45, perm the
\* permutation random.shuffle draws.
prioritize_pool_orders(pool, is_priority_mode, perm) ==
    LET large_orders == SelectSeq(pool, is_large)
        small_orders == SelectSeq(pool, is_small)
    IN  IF is_priority_mode
        THEN sort_orders_desc(large_orders) \o small_orders
        ELSE shuffle(large_orders \o small_orders, perm)

---------------------------------------------------------------------------
(* optimize_stop_sequence *)

\* Variant: < for <=.
optimize_stop_sequence_strict(stop_a, stop_b) ==
    LET dist_plant_a == calculate_distance(PLANT_COORDS, stop_a.coordinates)
        dist_plant_b == calculate_distance(PLANT_COORDS, stop_b.coordinates)
        dist_a_b == calculate_distance(stop_a.coordinates, stop_b.coordinates)
        len_a_b == dist_plant_a + dist_a_b
        len_b_a == dist_plant_b + dist_a_b
        same == same_distance(PLANT_COORDS, stop_a.coordinates,
                              PLANT_COORDS, stop_b.coordinates)
    IN  {IF ok THEN <<stop_a, stop_b>> ELSE <<stop_b, stop_a>> :
            ok \in float_less(len_a_b, len_b_a, same)}

\* The orders of the two stops the source can return: len_a_b and len_b_a
\* add the same dist_a_b to the two plant distances, and are the same double
\* when these are.
optimize_stop_sequence(stop_a, stop_b) ==
    LET dist_plant_a == calculate_distance(PLANT_COORDS, stop_a.coordinates)
        dist_plant_b == calculate_distance(PLANT_COORDS, stop_b.coordinates)
        dist_a_b == calculate_distance(stop_a.coordinates, stop_b.coordinates)
        len_a_b == dist_plant_a + dist_a_b
        len_b_a == dist_plant_b + dist_a_b
        same == same_distance(PLANT_COORDS, stop_a.coordinates,
                              PLANT_COORDS, stop_b.coordinates)
    IN  {IF ok THEN <<stop_a, stop_b>> ELSE <<stop_b, stop_a>> :
            ok \in float_leq(len_a_b, len_b_a, same)}

---------------------------------------------------------------------------
(* generate_trips_for_pool, step 1: full loads *)

direct_trip(order, truck_type, truck_cap) ==
    LET dist == calculate_distance(PLANT_COORDS, order.coordinates)
        t_travel == get_travel_time(dist)
        concrete_age == TIME_LOADING + t_travel + TIME_SERVICE
        duration == TIME_LOADING + t_travel + TIME_SERVICE + t_travel
    IN  [truck_type |-> truck_type,
         stops |-> <<order.customer_id>>,
         volume |-> FloatOf(truck_cap),
         duration |-> Duration(duration, dist = 0),
         concrete_age_at_finish |-> concrete_age,
         route_type |-> "Direct"]

leftover_item(order, vol) ==
    [customer_id |-> order.customer_id,
     volume |-> vol,
     coordinates |-> order.coordinates,
     full_order |-> order]

\* Variant: a Direct trip whose concrete would be too old is rejected.
RECURSIVE pack_order_reject_late(_, _)
pack_order_reject_late(order, vol) ==
    LET Emitted(trip) ==
            IF trip.concrete_age_at_finish > MAX_CONCRETE_LIFESPAN THEN <<>> ELSE <<trip>>
    IN  IF ~(vol.tenths > 0) THEN [trips |-> <<>>, leftovers |-> <<>>]
        ELSE IF FloatGe(vol, BIG_TRUCK)
        THEN LET rest == pack_order_reject_late(order, FloatSub(vol, BIG_TRUCK))
             IN  [rest EXCEPT !.trips = Emitted(direct_trip(order, "Big_Truck", BIG_TRUCK)) \o @]
        ELSE IF FloatGe(vol, MEDIUM_TRUCK)
        THEN LET rest == pack_order_reject_late(order, FloatSub(vol, MEDIUM_TRUCK))
             IN  [rest EXCEPT !.trips = Emitted(direct_trip(order, "Medium_Truck", MEDIUM_TRUCK)) \o @]
        ELSE [trips |-> <<>>, leftovers |-> <<leftover_item(order, vol)>>]

\* Variant: the Medium truck is tried before the Big one.
RECURSIVE pack_order_medium_first(_, _)
pack_order_medium_first(order, vol) ==
    IF ~(vol.tenths > 0) THEN [trips |-> <<>>, leftovers |-> <<>>]
    ELSE IF FloatGe(vol, MEDIUM_TRUCK)
    THEN LET rest == pack_order_medium_first(order, FloatSub(vol, MEDIUM_TRUCK))
         IN  [rest EXCEPT !.trips = <<direct_trip(order, "Medium_Truck", MEDIUM_TRUCK)>> \o @]
    ELSE [trips |-> <<>>, leftovers |-> <<leftover_item(order, vol)>>]

\* The while loop over one order: the Direct trips it emits and the leftover
\* item it pushes (at most one).  vol is a double; it is positive exactly
\* when its tenths are (a remainder of no tenths is 0.0).
RECURSIVE pack_order(_, _)
pack_order(order, vol) ==
    IF ~(vol.tenths > 0) THEN [trips |-> <<>>, leftovers |-> <<>>]
    ELSE IF FloatGe(vol, BIG_TRUCK)
    THEN LET rest == pack_order(order, FloatSub(vol, BIG_TRUCK))
         IN  [rest EXCEPT !.trips = <<direct_trip(order, "Big_Truck", BIG_TRUCK)>> \o @]
    ELSE IF FloatGe(vol, MEDIUM_TRUCK)
    THEN LET rest == pack_order(order, FloatSub(vol, MEDIUM_TRUCK))
         IN  [rest EXCEPT !.trips = <<direct_trip(order, "Medium_Truck", MEDIUM_TRUCK)>> \o @]
    ELSE [trips |-> <<>>, leftovers |-> <<leftover_item(order, vol)>>]

\* The for loop over sorted_pool.
RECURSIVE direct_stage(_)
direct_stage(sorted_pool) ==
    IF sorted_pool = <<>> THEN [trips |-> <<>>, leftovers |-> <<>>]
    ELSE LET first == pack_order(Head(sorted_pool), FloatOf(Head(sorted_pool).order_volume))
             rest == direct_stage(Tail(sorted_pool))
         IN  [trips |-> first.trips \o rest.trips,
              leftovers |-> first.leftovers \o rest.leftovers]

\* leftovers.sort(key=lambda x: x['volume'], reverse=True), on the doubles.
sort_leftovers_desc(ls) ==
    SortDescByKeys(ls, [i \in 1..Len(ls) |-> FloatKey(ls[i].volume)])

---------------------------------------------------------------------------
(* generate_trips_for_pool, step 2: pairing *)

\* One pass of the body of the inner loop for the pair (item_a, item_b):
\* what it computes before it compares the score, for each order of the
\* stops optimize_stop_sequence can return.
pair_candidate(s, item_a, item_b) ==
    {LET combined_vol == FloatAdd(item_a.volume, item_b.volume)
         truck == BestTruck(s, combined_vol)
         d1 == calculate_distance(PLANT_COORDS, stops[1].coordinates)
         t1 == get_travel_time(d1)
         d2 == calculate_distance(stops[1].coordinates, stops[2].coordinates)
         t2 == get_travel_time(d2)
         d3 == calculate_distance(stops[2].coordinates, PLANT_COORDS)
         t3 == get_travel_time(d3)
         concrete_age_at_end == TIME_LOADING + t1 + TIME_SERVICE + t2 + TIME_SERVICE
         waste == truck[2] - combined_vol.tenths
     IN  [combined_vol |-> combined_vol,
          t_type |-> truck[1],
          t_cap |-> truck[2],
          stops |-> stops,
          concrete_age_at_end |-> concrete_age_at_end,
          score |-> 10 * d2 + waste * 5,
          duration |-> Duration(TIME_LOADING + t1 + TIME_SERVICE + t2 + TIME_SERVICE + t3,
                                d1 = 0 /\ d2 = 0 /\ d3 = 0)] :
     stops \in optimize_stop_sequence(item_a, item_b)}

\* Variant: the lifespan test left out.
pair_feasible_capacity_only(cand) == ~FloatGt(cand.combined_vol, BIG_TRUCK)

\* The two `continue`s of the inner loop that reject a pair.  The age is
\* 1050 + 11 * (d1 + d2) and never 3600, so that its rounding does not matter.
pair_feasible(cand) ==
    /\ ~FloatGt(cand.combined_vol, BIG_TRUCK)
    /\ ~(cand.concrete_age_at_end > MAX_CONCRETE_LIFESPAN)

\* The scores of two candidates are the same double: the same distance
\* between the stops and the same combined volume.
same_score(cand, other) ==
    /\ same_distance(cand.stops[1].coordinates, cand.stops[2].coordinates,
                     other.stops[1].coordinates, other.stops[2].coordinates)
    /\ cand.combined_vol = other.combined_vol

\* The results score < best_metric can have; best.idx = 0 stands for
\* best_metric = inf.
score_less(cand, best) ==
    IF best.idx = 0 THEN {TRUE}
    ELSE float_less(cand.score, best.metric, same_score(cand, best.cand))

\* Variant: the first feasible partner is taken, whatever its score.
RECURSIVE search_partner_first_feasible(_, _, _, _, _, _)
search_partner_first_feasible(s, leftovers, i, processed, j, best) ==
    IF j > Len(leftovers) THEN {best}
    ELSE IF i = j \/ j \in processed
    THEN search_partner_first_feasible(s, leftovers, i, processed, j + 1, best)
    ELSE UNION {IF ~pair_feasible(cand)
                THEN search_partner_first_feasible(s, leftovers, i, processed, j + 1, best)
                ELSE {[idx |-> j, metric |-> cand.score, cand |-> cand]} :
                cand \in pair_candidate(s, leftovers[i], leftovers[j])}

\* The inner loop from index j on: the values best_match_idx and
\* best_trip_data can have at its end; best.idx = 0 stands for
\* best_match_idx = -1.
RECURSIVE search_partner(_, _, _, _, _, _)
search_partner(s, leftovers, i, processed, j, best) ==
    IF j > Len(leftovers) THEN {best}
    ELSE IF i = j \/ j \in processed
    THEN search_partner(s, leftovers, i, processed, j + 1, best)
    ELSE UNION {IF ~pair_feasible(cand)
                THEN search_partner(s, leftovers, i, processed, j + 1, best)
                ELSE UNION {search_partner(s, leftovers, i, processed, j + 1,
                                IF better
                                THEN [idx |-> j, metric |-> cand.score, cand |-> cand]
                                ELSE best) :
                            better \in score_less(cand, best)} :
                cand \in pair_candidate(s, leftovers[i], leftovers[j])}

no_match == [idx |-> 0, metric |-> 0, cand |-> <<>>]

\* Variant: a Shared trip that records the volume of item_a alone.
shared_trip_own_volume(item_a, item_b, best) ==
    [truck_type |-> best.cand.t_type,
     stops |-> <<best.cand.stops[1].customer_id, best.cand.stops[2].customer_id>>,
     volume |-> item_a.volume,
     duration |-> best.cand.duration,
     route_type |-> "Shared"]

shared_trip(item_a, item_b, best) ==
    [truck_type |-> best.cand.t_type,
     stops |-> <<best.cand.stops[1].customer_id, best.cand.stops[2].customer_id>>,
     volume |-> FloatAdd(item_a.volume, item_b.volume),
     duration |-> best.cand.duration,
     route_type |-> "Shared"]

leftover_trip(s, item_a) ==
    LET truck == BestTruck(s, item_a.volume)
        dist == calculate_distance(PLANT_COORDS, item_a.coordinates)
        t_travel == get_travel_time(dist)
        duration == TIME_LOADING + t_travel + TIME_SERVICE + t_travel
    IN  [truck_type |-> truck[1],
         stops |-> <<item_a.customer_id>>,
         volume |-> item_a.volume,
         duration |-> Duration(duration, dist = 0),
         route_type |-> "Leftover"]

\* Variant: the partner of a Shared trip is not marked as processed.
RECURSIVE pairing_stage_partner_kept(_, _, _, _)
pairing_stage_partner_kept(s, leftovers, i, processed) ==
    IF i > Len(leftovers) THEN {<<>>}
    ELSE IF i \in processed
    THEN pairing_stage_partner_kept(s, leftovers, i + 1, processed)
    ELSE UNION {LET trip == IF best.idx # 0
                            THEN shared_trip(leftovers[i], leftovers[best.idx], best)
                            ELSE leftover_trip(s, leftovers[i])
                IN  {<<trip>> \o rest :
                        rest \in pairing_stage_partner_kept(s, leftovers, i + 1,
                                                            processed \cup {i})} :
                best \in search_partner(s, leftovers, i, processed, 1, no_match)}

\* The outer loop from index i on: the lists of trips it can append.
RECURSIVE pairing_stage(_, _, _, _)
pairing_stage(s, leftovers, i, processed) ==
    IF i > Len(leftovers) THEN {<<>>}
    ELSE IF i \in processed THEN pairing_stage(s, leftovers, i + 1, processed)
    ELSE UNION {IF best.idx # 0
                THEN {<<shared_trip(leftovers[i], leftovers[best.idx], best)>> \o rest :
                        rest \in pairing_stage(s, leftovers, i + 1,
                                               processed \cup {i, best.idx})}
                ELSE {<<leftover_trip(s, leftovers[i])>> \o rest :
                        rest \in pairing_stage(s, leftovers, i + 1, processed \cup {i})} :
                best \in search_partner(s, leftovers, i, processed, 1, no_match)}

\* The sorted leftovers of a pool, as the pairing loop sees them.
pool_leftovers(sorted_pool) == sort_leftovers_desc(direct_stage(sorted_pool).leftovers)

\* Variant: the pairing trips are put before the Direct trips.
generate_trips_for_pool_pairing_first(s, sorted_pool) ==
    {paired \o direct_stage(sorted_pool).trips :
        paired \in pairing_stage(s, pool_leftovers(sorted_pool), 1, {})}

\* sorted_pool is what prioritize_pool_orders returned for the pool; the
\* lists of trips the source can return for it.
generate_trips_for_pool(s, sorted_pool) ==
    {direct_stage(sorted_pool).trips \o paired :
        paired \in pairing_stage(s, pool_leftovers(sorted_pool), 1, {})}

---------------------------------------------------------------------------
(* schedule_fleet *)

\* Variant: any truck of the needed type is taken, free or not.
RECURSIVE find_truck_any_time(_, _, _, _)
find_truck_any_time(fl, needed_type, start_time, idx) ==
    IF idx > Len(fl) THEN {[idx |-> 0, busy |-> {}]}
    ELSE IF fl[idx].type = needed_type THEN {[idx |-> idx, busy |-> {}]}
    ELSE find_truck_any_time(fl, needed_type, start_time, idx + 1)

\* Variant: a truck that comes back at start_time is not yet free.
RECURSIVE find_truck_strict(_, _, _, _)
find_truck_strict(fl, needed_type, start_time, idx) ==
    IF idx > Len(fl) THEN {[idx |-> 0, busy |-> {}]}
    ELSE IF fl[idx].type = needed_type /\ fl[idx].available_at.t < start_time
    THEN {[idx |-> idx, busy |-> {}]}
    ELSE find_truck_strict(fl, needed_type, start_time, idx + 1)

\* Variant: without the break, the last free truck of the needed type wins.
RECURSIVE find_truck_last_free(_, _, _, _)
find_truck_last_free(fl, needed_type, start_time, idx) ==
    IF idx > Len(fl) THEN {[idx |-> 0, busy |-> {}]}
    ELSE UNION {IF later.idx # 0 THEN {later}
                ELSE IF fl[idx].type = needed_type /\ fl[idx].available_at.t <= start_time
                THEN {[idx |-> idx, busy |-> {}]}
                ELSE {later} :
                later \in find_truck_last_free(fl, needed_type, start_time, idx + 1)}

\* The reuse loop with its break, from index idx on: what it can end with.
\* idx is the truck it has found, 0 for best_truck_idx = -1.  busy holds the
\* trucks it has passed whose available_at is start_time at the model's scale
\* and whose double the comparison has found above start_time.
RECURSIVE find_truck(_, _, _, _)
find_truck(fl, needed_type, start_time, idx) ==
    IF idx > Len(fl) THEN {[idx |-> 0, busy |-> {}]}
    ELSE IF fl[idx].type # needed_type
    THEN find_truck(fl, needed_type, start_time, idx + 1)
    ELSE UNION {IF free
                THEN {[idx |-> idx, busy |-> {}]}
                ELSE {[found EXCEPT !.busy = IF fl[idx].available_at.t = start_time
                                              THEN @ \cup {idx}
                                              ELSE @] :
                        found \in find_truck(fl, needed_type, start_time, idx + 1)} :
                free \in time_leq(fl[idx].available_at, start_time)}

\* end_time and duration_h are the sets of what the source can print.
schedule_record(truck_id, start_time, end_time, trip) ==
    [truck_id |-> truck_id,
     start_time |-> format_time(start_time),
     end_time |-> format_time_of_float(end_time.t),
     duration_h |-> round2(trip.duration)]

\* trip['schedule'] = {...}
with_schedule(trip, rec) ==
    [f \in DOMAIN trip \cup {"schedule"} |-> IF f = "schedule" THEN rec ELSE trip[f]]

\* Variant: the plant is ready again only when the truck is back.
next_plant_ready_time_on_return(st, trip) == st.plant_ready_time + trip.duration.units

\* plant_ready_time += TIME_LOADING
next_plant_ready_time(st, trip) == st.plant_ready_time + TIME_LOADING

\* The locals of schedule_fleet before its loop.
schedule_start ==
    [fleet |-> <<>>,
     plant_ready_time |-> START_HOUR,
     truck_id_counter |-> 1,
     schedule |-> <<>>,
     timeline |-> <<>>]

\* The timeline once the reuse loop has found the trucks busy late: the
\* latest trip of each is marked.
mark_late(tl, fl, busy) ==
    [h \in 1..Len(tl) |->
        IF \E k \in busy :
              /\ tl[h].truck_id = fl[k].id
              /\ tl[h].end_time = fl[k].available_at.t
        THEN [tl[h] EXCEPT !.late = TRUE]
        ELSE tl[h]]

\* One iteration of the loop over trips, on the locals st: the locals it can
\* leave, one for each way the reuse loop can end.
schedule_step(st, trip) ==
    LET needed_type == trip.truck_type
        start_time == st.plant_ready_time
        end_time == end_time_of(start_time, trip.duration)
    IN  {LET best_truck_idx == found.idx
             assigned_truck_id == IF best_truck_idx # 0
                                  THEN st.fleet[best_truck_idx].id
                                  ELSE st.truck_id_counter
         IN  [fleet |-> IF best_truck_idx # 0
                        THEN [st.fleet EXCEPT ![best_truck_idx].available_at = end_time]
                        ELSE Append(st.fleet, [id |-> assigned_truck_id,
                                               type |-> needed_type,
                                               available_at |-> end_time]),
              truck_id_counter |-> IF best_truck_idx # 0
                                   THEN st.truck_id_counter
                                   ELSE st.truck_id_counter + 1,
              schedule |-> Append(st.schedule,
                              with_schedule(trip,
                                  schedule_record(assigned_truck_id, start_time,
                                                  end_time, trip))),
              timeline |-> Append(mark_late(st.timeline, st.fleet, found.busy),
                                  [truck_id |-> assigned_truck_id,
                                   type |-> needed_type,
                                   start_time |-> start_time,
                                   end_time |-> end_time.t,
                                   late |-> FALSE]),
              plant_ready_time |-> next_plant_ready_time(st, trip)] :
         found \in find_truck(st.fleet, needed_type, start_time, 1)}

\* The whole loop: the locals it can end with.
RECURSIVE schedule_fleet_from(_, _)
schedule_fleet_from(st, ts) ==
    IF ts = <<>> THEN {st}
    ELSE UNION {schedule_fleet_from(next, Tail(ts)) : next \in schedule_step(st, Head(ts))}

schedule_fleet(ts) == schedule_fleet_from(schedule_start, ts)

FleetLocals ==
    [fleet |-> fleet,
     plant_ready_time |-> plant_ready_time,
     truck_id_counter |-> truck_id_counter,
     schedule |-> schedule,
     timeline |-> timeline]

SetFleetLocals(st) ==
    /\ fleet' = st.fleet
    /\ plant_ready_time' = st.plant_ready_time
    /\ truck_id_counter' = st.truck_id_counter
    /\ schedule' = st.schedule
    /\ timeline' = st.timeline

\* The argument list once the loop has run over its first Len(sched) trips:
\* trip['schedule'] = {...} writes into the dict that is in the list, and
\* schedule.append(trip) appends that same dict.
scheduled_in_place(ts, sched) ==
    [i \in 1..Len(ts) |-> IF i <= Len(sched) THEN sched[i] ELSE ts[i]]

\* schedule_fleet, one iteration of its loop at a time.
ScheduleTrip ==
    /\ pc = "schedule_fleet"
    /\ Len(schedule) < Len(trips)
    /\ \E st \in schedule_step(FleetLocals, trips[Len(schedule) + 1]) :
          /\ SetFleetLocals(st)
          /\ trips' = scheduled_in_place(trips, st.schedule)
    /\ UNCHANGED <<site, orders, pc, pools, next_pool, sorted_pools, priority_modes>>

\* return schedule
ScheduleReturn ==
    /\ pc = "schedule_fleet"
    /\ Len(schedule) = Len(trips)
    /\ pc' = "done"
    /\ UNCHANGED <<site, orders, pools, next_pool, sorted_pools, priority_modes, trips,
                   fleet, plant_ready_time, truck_id_counter, schedule, timeline>>

\* scheduled_routes = schedule_fleet(all_trips); return scheduled_routes
ScheduleFleet ==
    /\ pc = "schedule_fleet"
    /\ \E st \in schedule_fleet(trips) :
          /\ SetFleetLocals(st)
          /\ trips' = scheduled_in_place(trips, st.schedule)
    /\ pc' = "done"
    /\ UNCHANGED <<site, orders, pools, next_pool, sorted_pools, priority_modes>>

---------------------------------------------------------------------------
(* create_route *)

\* pools = create_pools(orders)
CreatePools ==
    /\ pc = "create_pools"
    /\ pools' = create_pools(site, orders)
    /\ next_pool' = 1
    /\ pc' = IF Len(pools') = 0 THEN "schedule_fleet" ELSE "generate_trips"
    /\ UNCHANGED <<site, orders, sorted_pools, priority_modes, trips,
                   fleet, plant_ready_time, truck_id_counter, schedule, timeline>>

\* One iteration of the loop over pools.values():
\* all_trips.extend(generate_trips_for_pool(pool_orders)).
GenerateTrips ==
    /\ pc = "generate_trips"
    /\ next_pool <= Len(pools)
    /\ \E is_priority_mode \in BOOLEAN :
         \E perm \in IF is_priority_mode
                     THEN {[i \in 1..Len(pools[next_pool].orders) |-> i]}
                     ELSE Perms(Len(pools[next_pool].orders)) :
           LET sorted_pool == prioritize_pool_orders(pools[next_pool].orders,
                                                     is_priority_mode, perm)
           IN  /\ sorted_pools' = Append(sorted_pools, sorted_pool)
               /\ priority_modes' = Append(priority_modes, is_priority_mode)
               /\ \E pool_trips \in generate_trips_for_pool(site, sorted_pool) :
                     trips' = trips \o pool_trips
    /\ next_pool' = next_pool + 1
    /\ pc' = IF next_pool' > Len(pools) THEN "schedule_fleet" ELSE "generate_trips"
    /\ UNCHANGED <<site, orders, pools,
                   fleet, plant_ready_time, truck_id_counter, schedule, timeline>>

---------------------------------------------------------------------------
(* Inputs *)

NaNCoord == [nan |-> TRUE, km |-> 0]

At(k) == [nan |-> FALSE, km |-> k]

Order(vol, coord, exposure) ==
    [coordinates |-> coord, order_volume |-> vol,
     strength |-> "C25", Dmax |-> 16, consistency |-> "F3", exposure |-> exposure]

\* The orders a list is made of.  Volumes: 1.5, 6.5 and 6.9 m3 are
\* remainders, 7.0 is one full Medium load, 21.5 a Big load, a Medium load
\* and a remainder of 2.5, 29.1 two Big loads and a remainder whose double
\* lies above 5.1, so that with 6.9 it exceeds 12.0 as a double.  Places:
\* 30 km on either side of the plant (equal distances), 280 km away (beyond
\* the reach of the lifespan), and an unresolved postal code (NaN, taken as
\* 50 km from everywhere).  Exposure XC2 puts an order in another pool in
\* create_route.py.
OrderKinds ==
    {Order(15, At(-30), "XC1"),
     Order(69, NaNCoord, "XC1"),
     Order(65, At(280), "XC1"),
     Order(291, At(-30), "XC1"),
     Order(70, At(280), "XC1"),
     Order(215, At(30), "XC2")}

\* customer_id is unique: the position in the list.
MakeOrders(kinds) ==
    [i \in 1..Len(kinds) |->
        [customer_id |-> i,
         coordinates |-> kinds[i].coordinates,
         order_volume |-> kinds[i].order_volume,
         strength |-> kinds[i].strength,
         Dmax |-> kinds[i].Dmax,
         consistency |-> kinds[i].consistency,
         exposure |-> kinds[i].exposure]]

OrderLists == {MakeOrders(k) : k \in SeqsUpTo(OrderKinds, MaxOrders)}

\* Orders that differ in their material only.
MaterialKinds ==
    [coordinates : {At(30)}, order_volume : {65},
     strength : {"C25", "C30"}, Dmax : {16, 32}, consistency : {"F3"},
     exposure : {"XC1", "XC2"}]

MaterialOrderLists == {MakeOrders(k) : k \in SeqsUpTo(MaterialKinds, MaxPoolOrders)}

\* Trips as schedule_fleet reads them: a truck type and a duration.  1 h is
\* a delivery next to the plant, 3 h one about 55 km away; a duration that
\* is 1.0 or 3.0 to the last bit, and one of 1 h that sums of rounded travel
\* times have produced.
TripKinds ==
    [truck_type : {"Medium_Truck", "Big_Truck"},
     duration : {Duration(600, TRUE), Duration(600, FALSE), Duration(1800, TRUE)}]

TripLists == SeqsUpTo(TripKinds, MaxTrips)

\* Trips of the shortest duration there is (loading and service, 1 h), for
\* runs long enough that trucks come back and wait.
LongTripKinds ==
    [truck_type : {"Medium_Truck", "Big_Truck"}, duration : {Duration(600, TRUE)}]

LongTripLists == SeqsUpTo(LongTripKinds, MaxLongTrips)

\* Orders of one material, for a single pool.  Volumes: 1.5, 1.9, 5.0 and
\* 6.9 m3 are remainders, 19.0 is a Big and a Medium load with nothing left,
\* 29.1 two Big loads and a remainder whose double lies above 5.1: with 6.9
\* it exceeds 12.0, and with 1.9 it exceeds 7.0, as doubles.  The order of
\* 1.9 has an unresolved postal code.
PoolKinds ==
    {Order(15, At(-30), "XC1"),
     Order(19, NaNCoord, "XC1"),
     Order(69, At(30), "XC1"),
     Order(291, At(30), "XC1"),
     Order(190, At(-30), "XC1"),
     Order(50, At(280), "XC1")}

PoolOrderLists == {MakeOrders(k) : k \in SeqsUpTo(PoolKinds, MaxPoolOrders)}

---------------------------------------------------------------------------
(* Specifications *)

FleetInit ==
    /\ fleet = <<>>
    /\ plant_ready_time = START_HOUR
    /\ truck_id_counter = 1
    /\ schedule = <<>>
    /\ timeline = <<>>

RouteInit ==
    /\ pc = "create_pools"
    /\ pools = <<>>
    /\ next_pool = 1
    /\ sorted_pools = <<>>
    /\ priority_modes = <<>>
    /\ trips = <<>>
    /\ FleetInit

\* create_route(orders)
Init ==
    /\ site \in Sites
    /\ orders \in OrderLists
    /\ RouteInit

Next == CreatePools \/ GenerateTrips \/ ScheduleFleet

Spec == Init /\ [][Next]_vars

\* create_pools(orders) alone
InitPools ==
    /\ site \in Sites
    /\ orders \in MaterialOrderLists
    /\ RouteInit

NextPools == CreatePools

SpecPools == InitPools /\ [][NextPools]_vars

\* generate_trips_for_pool on the one pool of orders of one material
InitTrips ==
    /\ site \in Sites
    /\ orders \in PoolOrderLists
    /\ RouteInit

NextTrips == CreatePools \/ GenerateTrips

SpecTrips == InitTrips /\ [][NextTrips]_vars

\* schedule_fleet(trips) alone
InitFleet ==
    /\ site = "create_route"
    /\ orders = <<>>
    /\ pc = "schedule_fleet"
    /\ pools = <<>>
    /\ next_pool = 1
    /\ sorted_pools = <<>>
    /\ priority_modes = <<>>
    /\ trips \in TripLists
    /\ FleetInit

NextFleet == ScheduleTrip \/ ScheduleReturn

SpecFleet == InitFleet /\ [][NextFleet]_vars

\* schedule_fleet(trips) alone, on longer lists
InitFleetLong ==
    /\ site = "create_route"
    /\ orders = <<>>
    /\ pc = "schedule_fleet"
    /\ pools = <<>>
    /\ next_pool = 1
    /\ sorted_pools = <<>>
    /\ priority_modes = <<>>
    /\ trips \in LongTripLists
    /\ FleetInit

SpecFleetLong == InitFleetLong /\ [][NextFleet]_vars

---------------------------------------------------------------------------
(* Reading the state *)

Done == pc = "done"

\* The order a customer_id stands for.
OrderOf(c) == CHOOSE o \in Range(orders) : o.customer_id = c

References(t, c) == c \in Range(t.stops)

\* Sum of 'volume' over the trips of ts, in tenths of a m3.
VolumeSum(ts) == SumSeq([i \in 1..Len(ts) |-> ts[i].volume.tenths])

\* Sum of 'volume' over all trips of ts whose stops contain c.
TripVolume(ts, c) ==
    LET Keep(t) == References(t, c)
    IN  VolumeSum(SelectSeq(ts, Keep))

\* Sum of 'volume' over the Direct trips of ts to c.
DirectVolume(ts, c) ==
    LET Keep(t) == References(t, c) /\ t.route_type = "Direct"
    IN  VolumeSum(SelectSeq(ts, Keep))

\* The customers that share a trip of ts with c.
Partners(ts, c) ==
    {d \in UNION {Range(ts[i].stops) : i \in 1..Len(ts)} :
        d # c /\ \E i \in 1..Len(ts) : {c, d} \subseteq Range(ts[i].stops)}

\* What is left of an order once its Direct trips are loaded.
Remainder(ts, c) == OrderOf(c).order_volume - DirectVolume(ts, c)

RECURSIVE SumSet(_, _)
SumSet(S, f) ==
    IF S = {} THEN 0
    ELSE LET x == CHOOSE y \in S : TRUE IN f[x] + SumSet(S \ {x}, f)

\* Concrete age at the second stop of the route plant -> c1 -> c2.
SecondStopAge(c1, c2) ==
    LET p1 == OrderOf(c1).coordinates
        p2 == OrderOf(c2).coordinates
    IN  TIME_LOADING + 11 * calculate_distance(PLANT_COORDS, p1) + TIME_SERVICE
        + 11 * calculate_distance(p1, p2) + TIME_SERVICE

---------------------------------------------------------------------------
(* C1 *)

\* C1 (as stated): after create_route, for every order the volumes of all
\* trips whose stops contain its customer_id sum to its order_volume.
C1_VolumeConservationPerOrder ==
    Done => \A o \in Range(orders) :
                TripVolume(schedule, o.customer_id) = o.order_volume

\* C1 (amended): a Shared trip carries the remainders of both its orders, so
\* the volumes of the trips whose stops contain an order's customer_id sum to
\* its order_volume plus the remainders of the orders it shares a trip with
\* (nothing when its remainder travels alone or it has none); an order is in
\* at most one Shared trip.
C1_VolumeConservationAmended ==
    Done => \A o \in Range(orders) :
                LET c == o.customer_id
                    ps == Partners(schedule, c)
                IN  /\ Cardinality(ps) <= 1
                    /\ TripVolume(schedule, c)
                         = o.order_volume
                           + SumSet(ps, [d \in ps |-> Remainder(schedule, d)])

\* An order with Direct trips whose remainder travels in a Shared trip, beside
\* an order whose remainder travels alone.
C1_Witness ==
    /\ Done
    /\ \E o \in Range(orders) :
          /\ DirectVolume(schedule, o.customer_id) > 0
          /\ Partners(schedule, o.customer_id) # {}
    /\ \E i \in 1..Len(schedule) : schedule[i].route_type = "Leftover"

---------------------------------------------------------------------------
(* C2 *)

\* C2: every trip generate_trips_for_pool emits, of any route type, carries
\* at most the capacity of its truck type.
C2_CapacityBound ==
    \A i \in 1..Len(trips) : FloatLe(trips[i].volume, Capacity(trips[i].truck_type))

\* Trips of the three route types, one of them below its truck's capacity and
\* one in a Small truck.
C2_Witness ==
    /\ \A rt \in {"Direct", "Shared", "Leftover"} :
          \E i \in 1..Len(trips) : trips[i].route_type = rt
    /\ \E i \in 1..Len(trips) : FloatLt(trips[i].volume, Capacity(trips[i].truck_type))
    /\ \E i \in 1..Len(trips) : trips[i].truck_type = "Small_Truck"

---------------------------------------------------------------------------
(* C3 *)

\* C3: every Shared trip, with its stops in the emitted order, has its
\* concrete at most 6.0 h old when the second stop is served.
C3_SharedLifespan ==
    \A i \in 1..Len(trips) :
        trips[i].route_type = "Shared" =>
            SecondStopAge(trips[i].stops[1], trips[i].stops[2]) <= MAX_CONCRETE_LIFESPAN

\* The loads of a and b fit one Big truck, but the route through both, in
\* either order, is too long for the concrete.
TooFarApart(a, b) ==
    /\ FloatLe(FloatAdd(a.volume, b.volume), BIG_TRUCK)
    /\ SecondStopAge(a.customer_id, b.customer_id) > MAX_CONCRETE_LIFESPAN
    /\ SecondStopAge(b.customer_id, a.customer_id) > MAX_CONCRETE_LIFESPAN

\* A pool with two remainders that fit one truck but are too far apart: one
\* of them travels alone, the other shares a trip with a third remainder.
C3_Witness ==
    \E k \in 1..Len(sorted_pools) :
        LET ls == pool_leftovers(sorted_pools[k])
        IN  \E x, y \in 1..Len(ls) :
              /\ x # y
              /\ TooFarApart(ls[x], ls[y])
              /\ \E i \in 1..Len(trips) :
                    /\ trips[i].route_type = "Leftover"
                    /\ trips[i].stops = <<ls[x].customer_id>>
              /\ \E i \in 1..Len(trips) :
                    /\ trips[i].route_type = "Shared"
                    /\ ls[y].customer_id \in Range(trips[i].stops)

---------------------------------------------------------------------------
(* C4 *)

TruckOf(j) == schedule[j].schedule.truck_id

\* The latest of the trips before j on truck id.
LatestTrip(id, j) ==
    CHOOSE h \in 1..(j - 1) :
        /\ TruckOf(h) = id
        /\ \A g \in 1..(j - 1) : TruckOf(g) = id => g <= h

\* The trip under way at time t: it has started and its end, as a double,
\* lies after t.
UnderWay(h, t) ==
    /\ timeline[h].start_time <= t
    /\ \/ t < timeline[h].end_time
       \/ t = timeline[h].end_time /\ timeline[h].late

\* The truck of trip i is out when trip j starts.
StillOut(i, j) == UnderWay(LatestTrip(TruckOf(i), j), timeline[j].start_time)

\* Every truck of trip j's class that exists when trip j is scheduled is
\* still out at trip j's start.
AllBusy(j) ==
    \A i \in 1..(j - 1) :
        timeline[i].type = timeline[j].type => StillOut(i, j)

\* Printed times in the order of the clock.
PrintedLeq(a, b) ==
    \/ a.days < b.days
    \/ a.days = b.days /\ a.hh < b.hh
    \/ a.days = b.days /\ a.hh = b.hh /\ a.mm <= b.mm

\* C4: every trip gets a truck of exactly its truck_type; two trips with the
\* same truck_id never overlap (the later starts no earlier than the earlier
\* ends, end = start + duration, also in the printed times); a trip that
\* starts while every truck of its class is out gets a new truck id.
C4_TruckReuse ==
    \A j \in 1..Len(schedule) :
        /\ schedule[j].truck_type = trips[j].truck_type
        /\ \E k \in 1..Len(fleet) :
              fleet[k].id = TruckOf(j) /\ fleet[k].type = trips[j].truck_type
        /\ timeline[j].end_time = timeline[j].start_time + trips[j].duration.units
        /\ \A i \in 1..(j - 1) :
              TruckOf(i) = TruckOf(j) =>
                  /\ ~UnderWay(i, timeline[j].start_time)
                  /\ \A printed \in schedule[i].schedule.end_time :
                        PrintedLeq(printed, schedule[j].schedule.start_time)
        /\ AllBusy(j) => \A i \in 1..(j - 1) : TruckOf(i) # TruckOf(j)

\* Two trips of one class a quarter of an hour apart on two trucks, and a
\* later trip of that class on the first truck again.
C4_Witness ==
    /\ Done
    /\ \E i, j, k \in 1..Len(schedule) :
          /\ j = i + 1 /\ j < k
          /\ trips[i].truck_type = trips[j].truck_type
          /\ trips[i].truck_type = trips[k].truck_type
          /\ TruckOf(i) # TruckOf(j)
          /\ TruckOf(k) = TruckOf(i)

---------------------------------------------------------------------------
(* C5 *)

TruckTypes == {"Small_Truck", "Medium_Truck", "Big_Truck"}

TrucksOfType(ty) == Cardinality({k \in 1..Len(fleet) : fleet[k].type = ty})

\* The trips of class ty that are under way at time t.
ActiveAt(ty, t) ==
    {i \in 1..Len(timeline) : timeline[i].type = ty /\ UnderWay(i, t)}

\* The largest number of trips of class ty under way at once (it is reached
\* at the start of one of them).
MaxActive(ty) ==
    LET counts == {Cardinality(ActiveAt(ty, timeline[i].start_time)) :
                      i \in 1..Len(timeline)} \cup {0}
    IN  CHOOSE m \in counts : \A n \in counts : n <= m

\* C5: the trucks schedule_fleet has created of each class are as many as the
\* trips of that class under way at once at the busiest moment, which no
\* assignment of trucks to these start times can undercut.
C5_MinimumFleet ==
    \A ty \in TruckTypes : TrucksOfType(ty) = MaxActive(ty)

\* A class with several trucks and more trips than trucks.
C5_Witness ==
    /\ Done
    /\ \E ty \in TruckTypes :
          /\ TrucksOfType(ty) >= 2
          /\ Cardinality({i \in 1..Len(trips) : trips[i].truck_type = ty})
               > TrucksOfType(ty)

---------------------------------------------------------------------------
(* C6 *)

\* Where the pools hold an order: <<pool, index>>.
Places(o) ==
    {<<p, i>> \in (1..Len(pools)) \X (1..Len(orders)) :
        i <= Len(pools[p].orders) /\ pools[p].orders[i] = o}

InputIndex(o) == CHOOSE i \in 1..Len(orders) : orders[i] = o

\* C6: create_pools puts every order in exactly one pool, once; two orders
\* are in the same pool exactly when their keys are equal; a pool keeps the
\* input order of its orders.
C6_Partition ==
    pc # "create_pools" =>
        /\ \A o \in Range(orders) : Cardinality(Places(o)) = 1
        /\ SumSeq([p \in 1..Len(pools) |-> Len(pools[p].orders)]) = Len(orders)
        /\ \A o1, o2 \in Range(orders) :
              (\E p \in 1..Len(pools) : {o1, o2} \subseteq Range(pools[p].orders))
                  <=> PoolKey(site, o1) = PoolKey(site, o2)
        /\ \A p \in 1..Len(pools) : \A i, j \in 1..Len(pools[p].orders) :
              i < j => InputIndex(pools[p].orders[i]) < InputIndex(pools[p].orders[j])

\* Two pools, the first of which holds the first and the third order.
C6_Witness ==
    /\ pc # "create_pools"
    /\ Len(orders) = 3
    /\ Len(pools) = 2
    /\ pools[1].orders = <<orders[1], orders[3]>>
    /\ pools[2].orders = <<orders[2]>>

---------------------------------------------------------------------------
(* C7 *)

SameMaterial(o1, o2) ==
    /\ o1.strength = o2.strength
    /\ o1.Dmax = o2.Dmax
    /\ o1.consistency = o2.consistency
    /\ o1.exposure = o2.exposure

\* C7: in create_route.py and in test.py alike, the orders of a pool agree on
\* strength, Dmax, consistency and exposure, and so do the two orders of
\* every Shared trip.
C7_PoolHomogeneity ==
    /\ \A p \in 1..Len(pools) : \A i, j \in 1..Len(pools[p].orders) :
          SameMaterial(pools[p].orders[i], pools[p].orders[j])
    /\ \A i \in 1..Len(trips) :
          trips[i].route_type = "Shared" =>
              SameMaterial(OrderOf(trips[i].stops[1]), OrderOf(trips[i].stops[2]))

---------------------------------------------------------------------------
(* C8 *)

IndexIn(s, x) == CHOOSE i \in 1..Len(s) : s[i] = x

\* C8: in priority mode the sequence returned for a pool is a permutation of
\* the pool; every order of at least 7.0 m3 comes before every smaller one;
\* the orders of at least 7.0 m3 are in non-increasing volume; the smaller
\* ones are in the order they have in the pool.
C8_PriorityOrdering ==
    \A k \in 1..Len(sorted_pools) :
        priority_modes[k] =>
            LET pool == pools[k].orders
                sp == sorted_pools[k]
            IN  /\ Len(sp) = Len(pool)
                /\ Range(sp) = Range(pool)
                /\ \A i, j \in 1..Len(sp) :
                      i < j =>
                          /\ ~(sp[i].order_volume < 70 /\ sp[j].order_volume >= 70)
                          /\ (sp[i].order_volume >= 70 /\ sp[j].order_volume >= 70)
                                => sp[i].order_volume >= sp[j].order_volume
                          /\ (sp[i].order_volume < 70 /\ sp[j].order_volume < 70)
                                => IndexIn(pool, sp[i]) < IndexIn(pool, sp[j])

\* Priority mode on a pool that lists a small order, then a large one, then a
\* larger one.
C8_Witness ==
    \E k \in 1..Len(sorted_pools) :
        /\ priority_modes[k]
        /\ Len(pools[k].orders) = 3
        /\ pools[k].orders[1].order_volume < 70
        /\ pools[k].orders[2].order_volume >= 70
        /\ pools[k].orders[3].order_volume > pools[k].orders[2].order_volume
        /\ sorted_pools[k] = <<pools[k].orders[3], pools[k].orders[2], pools[k].orders[1]>>

---------------------------------------------------------------------------
(* C9 *)

PlantDistance(stop) == calculate_distance(PLANT_COORDS, stop.coordinates)

\* Length of the way plant -> r[1] -> r[2].
WayLength(r) ==
    PlantDistance(r[1]) + calculate_distance(r[1].coordinates, r[2].coordinates)

\* The pairs (item_a, item_b) the pairing loop can hand to
\* optimize_stop_sequence: two different leftovers of one pool.
LeftoverPairs ==
    UNION {LET ls == pool_leftovers(sorted_pools[k])
           IN  {<<ls[x], ls[y]>> : <<x, y>> \in {z \in (1..Len(ls)) \X (1..Len(ls)) : z[1] # z[2]}} :
           k \in 1..Len(sorted_pools)}

\* The plant distances of a and b are the same double.
SamePlantDistance(a, b) ==
    same_distance(PLANT_COORDS, a.coordinates, PLANT_COORDS, b.coordinates)

\* C9: optimize_stop_sequence(A, B) is [A, B] when the way through A first is
\* no longer than the way through B first, and [B, A] otherwise; with equal
\* plant distances it is [A, B]; the way it returns is never the longer one.
\* The lengths are the doubles the source computes: ways that differ at the
\* model's scale differ as doubles, plant distances that are the same double
\* give equal sums, and ways equal at the model's scale only are left to the
\* comparison of their doubles.
C9_StopSequence ==
    \A pair \in LeftoverPairs :
        LET a == pair[1]
            b == pair[2]
            rs == optimize_stop_sequence(a, b)
        IN  /\ rs # {}
            /\ rs \subseteq {<<a, b>>, <<b, a>>}
            /\ WayLength(<<a, b>>) < WayLength(<<b, a>>) => rs = {<<a, b>>}
            /\ WayLength(<<a, b>>) > WayLength(<<b, a>>) => rs = {<<b, a>>}
            /\ SamePlantDistance(a, b) => rs = {<<a, b>>}
            /\ \A r \in rs : WayLength(r) <= WayLength(<<r[2], r[1]>>)

\* A pair whose plant distances are the same double, and a pair whose second
\* item is the nearer one.
C9_Witness ==
    /\ \E pair \in LeftoverPairs : SamePlantDistance(pair[1], pair[2])
    /\ \E pair \in LeftoverPairs :
          /\ PlantDistance(pair[1]) > PlantDistance(pair[2])
          /\ \E i \in 1..Len(trips) :
                trips[i].stops = <<pair[2].customer_id, pair[1].customer_id>>

---------------------------------------------------------------------------
(* C10 *)

\* C10: the k-th trip (counting from 0) starts at 8.0 h + k * 0.25 h, on a
\* reused truck or a new one and whatever the durations; start times strictly
\* increase in input order; the printed start time is that clock time.
C10_PlantClock ==
    /\ plant_ready_time = START_HOUR + Len(schedule) * TIME_LOADING
    /\ \A k \in 1..Len(schedule) :
          /\ timeline[k].start_time = START_HOUR + (k - 1) * TIME_LOADING
          /\ schedule[k].schedule.start_time
               = [hh |-> 8 + (k - 1) \div 4, mm |-> 15 * ((k - 1) % 4), days |-> 0]
          /\ \A i \in 1..(k - 1) : timeline[i].start_time < timeline[k].start_time

\* A run with a reused truck, a truck created after the first, and trips of
\* different durations.
C10_Witness ==
    /\ Done
    /\ \E i, j \in 1..Len(schedule) : i < j /\ TruckOf(i) = TruckOf(j)
    /\ Len(fleet) >= 2
    /\ \E i, j \in 1..Len(trips) : trips[i].duration.units # trips[j].duration.units

---------------------------------------------------------------------------
(* C11 *)

\* C11: the truck of every Shared and Leftover trip follows the tier rule of
\* its module: where small trucks are avoided a load of at most 3.0 m3 rides
\* a Medium_Truck and no trip at all has a Small_Truck; elsewhere a load of at
\* most 3.0 rides a Small_Truck, one in (3.0, 7.0] a Medium_Truck and one in
\* (7.0, 12.0] a Big_Truck.
C11_SmallTruckAvoidance ==
    \A i \in 1..Len(trips) :
        LET t == trips[i]
        IN  /\ avoid_small_trucks(site) => t.truck_type # "Small_Truck"
            /\ t.route_type \in {"Shared", "Leftover"} =>
                  IF avoid_small_trucks(site)
                  THEN FloatLe(t.volume, 30) => t.truck_type = "Medium_Truck"
                  ELSE /\ FloatLe(t.volume, 30) => t.truck_type = "Small_Truck"
                       /\ (FloatGt(t.volume, 30) /\ FloatLe(t.volume, 70))
                             => t.truck_type = "Medium_Truck"
                       /\ (FloatGt(t.volume, 70) /\ FloatLe(t.volume, 120))
                             => t.truck_type = "Big_Truck"

\* With small trucks avoided, a Shared trip and a Leftover trip of at most
\* 3.0 m3 each, both on a Medium_Truck.
C11_Witness ==
    /\ avoid_small_trucks(site)
    /\ \A rt \in {"Shared", "Leftover"} :
          \E i \in 1..Len(trips) :
              /\ trips[i].route_type = rt
              /\ FloatLe(trips[i].volume, 30)
              /\ trips[i].truck_type = "Medium_Truck"

---------------------------------------------------------------------------
(* C12 *)

\* The Direct trips of ts to customer c.
DirectTrips(ts, c) ==
    LET Keep(t) == References(t, c) /\ t.route_type = "Direct"
    IN  SelectSeq(ts, Keep)

\* The Shared and Leftover trips of ts that stop at customer c.
RemainderTrips(ts, c) ==
    LET Keep(t) == References(t, c) /\ t.route_type # "Direct"
    IN  SelectSeq(ts, Keep)

\* The LeftoverItems the Direct stage pushed for customer c in pool k.
ItemsOf(k, c) ==
    LET Keep(item) == item.customer_id = c
    IN  SelectSeq(direct_stage(sorted_pools[k]).leftovers, Keep)

CountOnTruck(ts, ty) == Cardinality({i \in 1..Len(ts) : ts[i].truck_type = ty})

\* C12: for every order of volume v > 0 the Direct stage has emitted only
\* full one-stop loads, 12.0 on a Big_Truck or 7.0 on a Medium_Truck, a Big
\* load as long as at least 12.0 remained (v div 12.0 of them, then at most
\* one Medium load, after which the loop has ended); it has pushed at most
\* one LeftoverItem, of volume r = v - Direct loads with 0 < r < 7.0, and that
\* item rides whole in exactly one trip.
C12_DirectPacking ==
    \A k \in 1..Len(sorted_pools) : \A o \in Range(sorted_pools[k]) :
        LET c == o.customer_id
            v == o.order_volume
            directs == DirectTrips(trips, c)
            items == ItemsOf(k, c)
            rests == RemainderTrips(trips, c)
        IN  v > 0 =>
              /\ \A i \in 1..Len(directs) :
                    /\ directs[i].stops = <<c>>
                    /\ \/ directs[i].truck_type = "Big_Truck"
                          /\ directs[i].volume = FloatOf(120)
                       \/ directs[i].truck_type = "Medium_Truck"
                          /\ directs[i].volume = FloatOf(70)
              /\ CountOnTruck(directs, "Big_Truck") = v \div 120
              /\ CountOnTruck(directs, "Medium_Truck") = (IF v % 120 >= 70 THEN 1 ELSE 0)
              /\ Len(directs) = CountOnTruck(directs, "Big_Truck")
                                  + CountOnTruck(directs, "Medium_Truck")
              /\ Len(items) <= 1
              /\ \A i \in 1..Len(items) :
                    /\ items[i].volume.tenths > 0 /\ FloatLt(items[i].volume, 70)
                    /\ items[i].volume = FloatSub(FloatOf(v), VolumeSum(directs))
              /\ Len(items) = 0 <=> VolumeSum(directs) = v
              /\ Len(rests) = Len(items)
              /\ \A i \in 1..Len(rests) : rests[i].volume.tenths >= items[1].volume.tenths

\* An order of 21.5 m3 (a Big load, a Medium load, 2.5 left over) beside one
\* of 19.0 m3 that leaves nothing.
C12_Witness ==
    \E k \in 1..Len(sorted_pools) : \E o1, o2 \in Range(sorted_pools[k]) :
        /\ Len(DirectTrips(trips, o1.customer_id)) = 2
        /\ Len(ItemsOf(k, o1.customer_id)) = 1
        /\ Len(DirectTrips(trips, o2.customer_id)) = 2
        /\ Len(ItemsOf(k, o2.customer_id)) = 0

---------------------------------------------------------------------------
(* C13 *)

\* The customers of the LeftoverItems ls.
ItemCustomers(ls) == {ls[x].customer_id : x \in 1..Len(ls)}

\* The LeftoverItem of customer c among ls.
ItemOf(ls, c) == ls[CHOOSE x \in 1..Len(ls) : ls[x].customer_id = c]

\* Items a and b may share a truck: together at most 12.0 m3, and on the way
\* optimize_stop_sequence picks the concrete is at most 6.0 h old when the
\* second stop is served.
Feasible(a, b) ==
    /\ FloatLe(FloatAdd(a.volume, b.volume), 120)
    /\ \A r \in optimize_stop_sequence(a, b) :
          SecondStopAge(r[1].customer_id, r[2].customer_id) <= 3600

\* C13: after the pairing pass every LeftoverItem of a pool is covered by
\* exactly one trip, a Shared trip with exactly one other item of the pool
\* (carrying both volumes) or a Leftover trip alone (carrying its volume);
\* Shared and Leftover trips cover nothing but items; no trip has more than
\* two stops.
C13_DispatchedOnce ==
    /\ \A i \in 1..Len(trips) : Len(trips[i].stops) <= 2
    /\ \A k \in 1..Len(sorted_pools) :
          LET ls == pool_leftovers(sorted_pools[k])
              cs == ItemCustomers(ls)
          IN  /\ \A c \in cs :
                    LET rests == RemainderTrips(trips, c)
                    IN  /\ Len(rests) = 1
                        /\ rests[1].route_type = "Leftover" =>
                              /\ rests[1].stops = <<c>>
                              /\ rests[1].volume = ItemOf(ls, c).volume
                        /\ rests[1].route_type = "Shared" =>
                              \E d \in cs \ {c} :
                                  /\ Range(rests[1].stops) = {c, d}
                                  /\ Len(rests[1].stops) = 2
                                  /\ rests[1].volume
                                       = FloatAdd(ItemOf(ls, c).volume, ItemOf(ls, d).volume)
              /\ \A o \in Range(sorted_pools[k]) :
                    o.customer_id \notin cs =>
                        Len(RemainderTrips(trips, o.customer_id)) = 0

\* An item travels alone although it could have shared a truck with an item
\* of its pool that a Shared trip had consumed before.
C13_Witness ==
    \E k \in 1..Len(sorted_pools) :
        LET ls == pool_leftovers(sorted_pools[k])
        IN  \E c, d \in ItemCustomers(ls) :
              /\ c # d
              /\ Feasible(ItemOf(ls, c), ItemOf(ls, d))
              /\ RemainderTrips(trips, c)[1].route_type = "Leftover"
              /\ RemainderTrips(trips, d)[1].route_type = "Shared"

---------------------------------------------------------------------------
(* C14 *)

\* Ten times the score of sharing a truck between items a and b: the
\* kilometres between the two stops plus 5.0 per m3 of unused capacity of the
\* truck the tier rule gives the combined volume.
Score(a, b) ==
    10 * calculate_distance(a.coordinates, b.coordinates)
        + 5 * (BestTruck(site, FloatAdd(a.volume, b.volume))[2]
                 - (a.volume.tenths + b.volume.tenths))

\* Sharing a truck between a and b, and between a and x, has scores that are
\* the same double by construction: the same distance between the stops and
\* the same volume of the partner.
SameScore(a, b, x) ==
    /\ same_distance(a.coordinates, b.coordinates, a.coordinates, x.coordinates)
    /\ b.volume = x.volume

\* The Shared and Leftover trips for the items ls, in the order they were
\* emitted.
PairingTrips(ls) ==
    LET cs == ItemCustomers(ls)
        Keep(t) == t.route_type # "Direct" /\ t.stops[1] \in cs
    IN  SelectSeq(trips, Keep)

\* The positions in ls (descending volume) of the items that no trip before
\* the q-th of the pairing trips rts has covered.
Unmatched(ls, rts, q) ==
    LET covered == UNION {Range(rts[p].stops) : p \in 1..(q - 1)}
    IN  {x \in 1..Len(ls) : ls[x].customer_id \notin covered}

\* The item the outer loop is at: the first of the unmatched positions U.
ItemA(U) == CHOOSE x \in U : \A y \in U : x <= y

\* The unmatched items that may share a truck with the item at position a.
FeasiblePartners(ls, U, a) == {x \in U \ {a} : Feasible(ls[a], ls[x])}

\* The position of the item that shares trip t with the item at position a.
PartnerOf(ls, t, a) ==
    CHOOSE x \in 1..Len(ls) : x # a /\ ls[x].customer_id \in Range(t.stops)

\* C14: each pairing trip is emitted for the largest-volume unmatched item A,
\* the first unmatched one in descending-volume order.  It is a Leftover trip
\* exactly when no unmatched item is feasible with A; otherwise it is a Shared
\* trip with a feasible unmatched item B whose score no feasible unmatched
\* item undercuts, and which precedes every feasible item of equal score.
C14_MinimumScorePartner ==
    \A k \in 1..Len(sorted_pools) :
        LET ls == pool_leftovers(sorted_pools[k])
            rts == PairingTrips(ls)
        IN  \A q \in 1..Len(rts) :
              LET U == Unmatched(ls, rts, q)
              IN  /\ U # {}
                  /\ LET a == ItemA(U)
                         F == FeasiblePartners(ls, U, a)
                     IN  /\ \A y \in U : FloatKey(ls[a].volume) >= FloatKey(ls[y].volume)
                         /\ ls[a].customer_id \in Range(rts[q].stops)
                         /\ rts[q].route_type = "Leftover" <=> F = {}
                         /\ F # {} =>
                               LET b == PartnerOf(ls, rts[q], a)
                                   best == Score(ls[a], ls[b])
                               IN  /\ rts[q].route_type = "Shared"
                                   /\ b \in F
                                   /\ \A x \in F :
                                         /\ best <= Score(ls[a], ls[x])
                                         /\ (best = Score(ls[a], ls[x])
                                               /\ SameScore(ls[a], ls[b], ls[x])) => b <= x

\* Item A had two feasible partners and took the later one, whose score is
\* lower.
C14_Witness ==
    \E k \in 1..Len(sorted_pools) :
        LET ls == pool_leftovers(sorted_pools[k])
            rts == PairingTrips(ls)
        IN  \E q \in 1..Len(rts) :
              LET U == Unmatched(ls, rts, q)
                  a == ItemA(U)
                  b == PartnerOf(ls, rts[q], a)
              IN  /\ rts[q].route_type = "Shared"
                  /\ \E x \in FeasiblePartners(ls, U, a) :
                        /\ x < b
                        /\ Score(ls[a], ls[x]) > Score(ls[a], ls[b])

---------------------------------------------------------------------------
(* C15 *)

\* The trucks that exist when trip j is scheduled.
TrucksBefore(j) == {TruckOf(h) : h \in 1..(j - 1)}

\* When truck id is back from the latest of its trips before trip j, at the
\* model's scale.
FreeAt(id, j) == timeline[LatestTrip(id, j)].end_time

\* The trucks of trip j's class that are back when trip j starts.
FreeTrucks(j) ==
    {id \in TrucksBefore(j) :
        /\ \E h \in 1..(j - 1) : TruckOf(h) = id /\ timeline[h].type = timeline[j].type
        /\ ~UnderWay(LatestTrip(id, j), timeline[j].start_time)}

\* C15: the fleet list holds the trucks 1, 2, ... in creation order, each
\* with the end of its latest trip as available_at, and the counter is the
\* next id; a trip gets a new truck, with the next id, exactly when no truck
\* of its class is back at its start, and otherwise the free truck of its
\* class that is first in the fleet list, whenever the others came back.
C15_FirstFitReuse ==
    /\ truck_id_counter = Len(fleet) + 1
    /\ \A k \in 1..Len(fleet) :
          /\ fleet[k].id = k
          /\ k \in TrucksBefore(Len(schedule) + 1)
          /\ fleet[k].available_at.t = FreeAt(k, Len(schedule) + 1)
    /\ TrucksBefore(Len(schedule) + 1) = 1..Len(fleet)
    /\ \A j \in 1..Len(schedule) :
          IF FreeTrucks(j) = {}
          THEN TruckOf(j) = Cardinality(TrucksBefore(j)) + 1
          ELSE /\ TruckOf(j) \in FreeTrucks(j)
               /\ \A id \in FreeTrucks(j) : TruckOf(j) <= id

\* A trip takes the first free truck of its class although a truck created
\* later has been back for longer.
C15_Witness ==
    \E j \in 1..Len(schedule) : \E id \in FreeTrucks(j) :
        /\ TruckOf(j) < id
        /\ FreeAt(id, j) < FreeAt(TruckOf(j), j)

---------------------------------------------------------------------------
(* C16 *)

\* The pool the order of customer c is in.
PoolOf(c) ==
    CHOOSE p \in 1..Len(pools) :
        \E i \in 1..Len(pools[p].orders) : pools[p].orders[i].customer_id = c

\* The pool a trip belongs to.
TripPool(t) == PoolOf(t.stops[1])

\* The input position of the first order of pool p.
FirstAppearance(p) == InputIndex(pools[p].orders[1])

\* A scheduled trip without its 'schedule' sub-record.
Unscheduled(t) == [f \in DOMAIN t \ {"schedule"} |-> t[f]]

\* The list create_route returns holds the trips of each pool as one block,
\* the blocks in the order the pools first appear in the input, and within a
\* block the Direct trips before the Shared and Leftover ones.
BlocksInOrder ==
    Done =>
        /\ \A p, q \in 1..Len(pools) : p < q => FirstAppearance(p) < FirstAppearance(q)
        /\ \A i \in 1..Len(schedule) :
              \A d \in Range(schedule[i].stops) : PoolOf(d) = TripPool(schedule[i])
        /\ \A i, j \in 1..Len(schedule) :
              i < j =>
                  /\ TripPool(schedule[i]) <= TripPool(schedule[j])
                  /\ TripPool(schedule[i]) = TripPool(schedule[j]) =>
                        ~(schedule[i].route_type # "Direct"
                            /\ schedule[j].route_type = "Direct")

\* The step of create_route that calls schedule_fleet: what it returns is
\* the list it was given, trip by trip, with nothing but the 'schedule'
\* sub-record added; the trips of the list it was given are the very dicts
\* it returns, so the list holds them with the sub-record afterwards.
ReturnsItsInput ==
    (pc = "schedule_fleet" /\ pc' = "done") =>
        /\ Len(schedule') = Len(trips)
        /\ \A i \in 1..Len(trips) :
              /\ DOMAIN schedule'[i] = DOMAIN trips[i] \cup {"schedule"}
              /\ "schedule" \notin DOMAIN trips[i]
              /\ Unscheduled(schedule'[i]) = trips[i]
        /\ trips' = schedule'

\* C16: the list create_route returns holds the trips of each pool as one
\* block, the blocks in the order the pools first appear in the input, and
\* within a block the Direct trips before the Shared and Leftover ones; it is
\* the list schedule_fleet was given, trip by trip in the same order, with
\* nothing but the 'schedule' sub-record added to each trip.
C16_DispatchOrder == [](BlocksInOrder) /\ [][ReturnsItsInput]_vars

\* Two pools whose orders alternate in the input, the first with a Direct
\* trip for its later order and a Shared or Leftover trip for its earlier one.
C16_Witness ==
    /\ Done
    /\ Len(pools) = 2
    /\ \E a, b, c \in 1..Len(orders) :
          /\ a < b /\ b < c
          /\ PoolOf(orders[a].customer_id) = 1
          /\ PoolOf(orders[b].customer_id) = 2
          /\ PoolOf(orders[c].customer_id) = 1
          /\ \E i, j \in 1..Len(schedule) :
                /\ i < j
                /\ schedule[i].route_type = "Direct"
                /\ schedule[i].stops = <<orders[c].customer_id>>
                /\ schedule[j].route_type # "Direct"
                /\ orders[a].customer_id \in Range(schedule[j].stops)
    /\ \E i \in 1..Len(schedule) : TripPool(schedule[i]) = 2

---------------------------------------------------------------------------
(* C17 *)

\* C17: the volumes of all trips create_route returns sum to the volumes of
\* all input orders, and every order is referenced by at least one trip;
\* a Direct trip is emitted also when its concrete is older than 6.0 h at
\* the end of service.
C17_TotalVolume ==
    Done =>
        /\ VolumeSum(schedule) = SumSeq([i \in 1..Len(orders) |-> orders[i].order_volume])
        /\ \A o \in Range(orders) :
              \E i \in 1..Len(schedule) : References(schedule[i], o.customer_id)

\* A Direct trip to a customer too far away for the concrete, beside a
\* Shared trip.
C17_Witness ==
    /\ Done
    /\ \E i \in 1..Len(schedule) :
          /\ schedule[i].route_type = "Direct"
          /\ schedule[i].concrete_age_at_finish > MAX_CONCRETE_LIFESPAN
    /\ \E i \in 1..Len(schedule) : schedule[i].route_type = "Shared"

====
